---- MODULE Spec2Model ----
(***************************************************************************)
(* Realtime fan-out core of the Vibe Chat API (src/main.py): the push      *)
(* stream (sse_event_generator / sse_subscribers), the socket broadcaster  *)
(* (ConnectionManager / websocket_endpoint) and the dispatcher             *)
(* (publish_event) as called by send_message and upload_media.             *)
(*                                                                         *)
(* The program runs on one cooperative event loop: a task is suspended     *)
(* only at an await or a yield, so every action below is the code run      *)
(* from one suspension point to the next.                                  *)
(***************************************************************************)
EXTENDS Integers, Sequences, FiniteSets, TLC

\* ---------------------------------------------------------------- bounds
NSubs == 2          \* push-stream requests (each creates its own queue)
NSocks == 2         \* socket connections (each its own WebSocket object)
NReqs == 2          \* write requests (send_message / upload_media)
MaxKeepAlive == 2   \* keep-alive frames followed per subscriber
NJointSubs == 1     \* push-stream requests when both transports run together

\* ---------------------------------------------------- program constants
SSE_TIMEOUT == 15   \* wait_for(queue.get(), timeout=15)
QueueMaxSize == 0   \* asyncio.Queue(): maxsize 0, the queue is unbounded

Subs == 1..NSubs
Socks == 1..NSocks
Reqs == 1..NReqs

\* Inputs of the write requests.
ChatIds == {"c1", "c0", "bad"}      \* existing, well-formed but absent, malformed
Usernames == {"u1", "ux"}           \* existing, absent
Contents == {"hi", ""}
Kinds == {"none", "image", "audio"} \* "none": the optional field left out

VARIABLES
  sse_subscribers, \* set of the registered queues (named by their subscriber)
  spc,             \* position of each sse_event_generator
  squeue,          \* content of each subscriber's asyncio.Queue
  swaited,         \* time a subscriber has spent in the current wait_for
  sout,            \* frames each generator has yielded, in order
  speer,           \* the push-stream peer: "open" or "gone"
  sdue,            \* history: events published while the queue was registered
  active,          \* ws_manager.active, a list
  wpc,             \* position of each websocket_endpoint
  wpeer,           \* the socket peer: "open", "stalled" or "gone"
  wrecv,           \* events each socket's send_text completed, in order
  failed,          \* history: sockets on which a send_text has raised
  rpc,             \* position of each write request
  rreq,            \* the request's inputs
  revent,          \* the serialized envelope the request publishes
  bsnap,           \* broadcast: list(self.active) taken at its start
  bidx,            \* broadcast: index of the socket being sent to
  blog,            \* history: <<socket, outcome>> of each send attempt
  rresp,           \* the response of the request
  db_message,      \* the "message" collection
  db_preview,      \* last_message_preview of chat "c1"
  db_media         \* number of documents of the "media" collection

svars == <<sse_subscribers, spc, squeue, swaited, sout, speer, sdue>>
wvars == <<active, wpc, wpeer, wrecv, failed>>
bvars == <<bsnap, bidx, blog>>
rvars == <<rpc, rreq, revent, rresp>>
dvars == <<db_message, db_preview, db_media>>
vars == <<svars, wvars, bvars, rvars, dvars>>

\* ------------------------------------------------------------- helpers
Range(f) == {f[i] : i \in DOMAIN f}

\* Connection and request objects are created one after the other: object
\* i is the next fresh one once object i - 1 exists.
NextFresh(pc, i) == IF i = 1 THEN TRUE ELSE pc[i - 1] # "new"

NoReq == [op |-> "none"]
NoResp == [status |-> 0]

\* ------------------------------------------------------------ storage
\* bson.ObjectId(chat_id) raises on a malformed id.
ValidObjectId(c) == c \in {"c1", "c0"}

\* db["chat"].find_one({"_id": chat_oid})
FindChat(c) == c = "c1"

\* _get_user_by_username
GetUserByUsername(u) == u = "u1"

\* create_document("message", msg): inserts and returns the new id.
CreateDocumentId(coll) == Len(coll) + 1

\* ------------------------------------------------------------ envelope
\* preview of send_message
SendPreview(content, kind) ==
  IF content # "" THEN content
  ELSE IF kind = "image" THEN "img"
  ELSE IF kind = "audio" THEN "audio"
  ELSE "Messaggio"

\* preview of upload_media
UploadPreview(kind) == IF kind = "image" THEN "img" ELSE "audio"

\* json.dumps({"type": ..., "chat_id": ..., "message_id": ..., "preview": ...})
JsonDumps(c, m, p) ==
  <<"type", "new_message", "chat_id", c, "message_id", m, "preview", p>>

\* f"data: {event}\n\n"
DataFrame(event) == <<"data: ">> \o event \o <<"\n\n">>

\* ": keep-alive\n\n"
KeepAliveFrame == <<": keep-alive\n\n">>

\* ------------------------------------------------------- push stream
\* sse_subscribers.add(queue)
SseAdd(subscribers, q) == subscribers \cup {q}

\* Mutants of SseDiscard: a clear() instead of a discard; no removal at all.
SseDiscardAll(subscribers, q) == {}

SseDiscardLeak(subscribers, q) == subscribers

\* sse_subscribers.discard(queue), the finally clause of the generator
SseDiscard(subscribers, q) == subscribers \ {q}

\* Mutant of PutNowait: a queue created with maxsize=1.
PutNowaitBounded(q, event) ==
  IF Len(q) >= 1
  THEN [raised |-> TRUE, q |-> q]
  ELSE [raised |-> FALSE, q |-> Append(q, event)]

\* Mutant of PutNowait: a LifoQueue, the newest event is taken first.
PutNowaitFront(q, event) == [raised |-> FALSE, q |-> <<event>> \o q]

\* Queue.put_nowait: raises QueueFull only when a positive maxsize is reached.
PutNowait(q, event) ==
  IF QueueMaxSize > 0 /\ Len(q) >= QueueMaxSize
  THEN [raised |-> TRUE, q |-> q]
  ELSE [raised |-> FALSE, q |-> Append(q, event)]

\* Mutant of PublishSse: the loop is left after the first queue.
PublishSseFirst(queues, subscribers, event) ==
  [s \in Subs |-> IF s \in subscribers /\ \A x \in subscribers : s <= x
                  THEN PutNowait(queues[s], event).q
                  ELSE queues[s]]

\* The push-stream pass of publish_event: put_nowait on every queue of
\* list(sse_subscribers), QueueFull swallowed.
PublishSse(queues, subscribers, event) ==
  [s \in Subs |-> IF s \in subscribers THEN PutNowait(queues[s], event).q
                  ELSE queues[s]]

\* Mutant of WaitFor: the deadline is looked at before the queue.
WaitForDeadlineFirst(q, waited) ==
  IF waited >= SSE_TIMEOUT THEN "timeout"
  ELSE IF q # <<>> THEN "item"
  ELSE "pending"

\* asyncio.wait_for(queue.get(), timeout=15): the head of the queue as soon
\* as there is one, TimeoutError once the timeout has passed with none.
WaitFor(q, waited) ==
  IF q # <<>> THEN "item"
  ELSE IF waited >= SSE_TIMEOUT THEN "timeout"
  ELSE "pending"

Running(s) == spc[s] \in {"check", "wait", "yield"}

KeepAlives(s) == Cardinality({i \in DOMAIN sout[s] : sout[s][i] = KeepAliveFrame})

\* The horizon of the model: a stream whose peer is there stops timing out
\* after MaxKeepAlive keep-alives; one whose peer has gone is never held,
\* it has at most one wait left.
WithinHorizon(s) ==
  IF speer[s] = "gone" THEN TRUE ELSE KeepAlives(s) < MaxKeepAlive

\* Mutant of IsDisconnected: the disconnect is never reported.
IsDisconnectedNever(peer) == FALSE

\* await request.is_disconnected()
IsDisconnected(peer) == peer = "gone"

\* The generator is started by the response: the queue is created and
\* registered, and the loop reaches its first disconnect check.
SseSubscribe(s) ==
  /\ spc[s] = "new"
  /\ NextFresh(spc, s)
  /\ spc' = [spc EXCEPT ![s] = "check"]
  /\ squeue' = [squeue EXCEPT ![s] = <<>>]
  /\ sse_subscribers' = SseAdd(sse_subscribers, s)
  /\ UNCHANGED <<swaited, sout, speer, sdue, wvars, bvars, rvars, dvars>>

\* await request.is_disconnected(): break (and the finally clause) when the
\* peer has gone, otherwise the wait on the queue starts.
SseCheck(s) ==
  /\ spc[s] = "check"
  /\ IF IsDisconnected(speer[s])
     THEN /\ spc' = [spc EXCEPT ![s] = "closed"]
          /\ sse_subscribers' = SseDiscard(sse_subscribers, s)
     ELSE /\ spc' = [spc EXCEPT ![s] = "wait"]
          /\ UNCHANGED sse_subscribers
  /\ swaited' = [swaited EXCEPT ![s] = 0]
  /\ UNCHANGED <<squeue, sout, speer, sdue, wvars, bvars, rvars, dvars>>

\* wait_for returns an event: yield the data frame.
SseData(s) ==
  /\ spc[s] = "wait"
  /\ WaitFor(squeue[s], swaited[s]) = "item"
  /\ sout' = [sout EXCEPT ![s] = Append(@, DataFrame(Head(squeue[s])))]
  /\ squeue' = [squeue EXCEPT ![s] = Tail(@)]
  /\ spc' = [spc EXCEPT ![s] = "yield"]
  /\ swaited' = [swaited EXCEPT ![s] = 0]
  /\ UNCHANGED <<sse_subscribers, speer, sdue, wvars, bvars, rvars, dvars>>

\* wait_for raises TimeoutError: yield the keep-alive frame.
SseKeepAlive(s) ==
  /\ spc[s] = "wait"
  /\ WaitFor(squeue[s], swaited[s]) = "timeout"
  /\ WithinHorizon(s)
  /\ sout' = [sout EXCEPT ![s] = Append(@, KeepAliveFrame)]
  /\ spc' = [spc EXCEPT ![s] = "yield"]
  /\ swaited' = [swaited EXCEPT ![s] = 0]
  /\ UNCHANGED <<sse_subscribers, squeue, speer, sdue, wvars, bvars, rvars, dvars>>

\* The response has written the frame and asks the generator for the next.
SseResume(s) ==
  /\ spc[s] = "yield"
  /\ spc' = [spc EXCEPT ![s] = "check"]
  /\ UNCHANGED <<sse_subscribers, squeue, swaited, sout, speer, sdue,
                 wvars, bvars, rvars, dvars>>

\* The response is torn down after the peer has gone: the generator is
\* closed where it is suspended and its finally clause runs.
SseCancel(s) ==
  /\ Running(s)
  /\ speer[s] = "gone"
  /\ spc' = [spc EXCEPT ![s] = "closed"]
  /\ sse_subscribers' = SseDiscard(sse_subscribers, s)
  /\ swaited' = [swaited EXCEPT ![s] = 0]
  /\ UNCHANGED <<squeue, sout, speer, sdue, wvars, bvars, rvars, dvars>>

\* The peer of a push stream disconnects.
SsePeerGone(s) ==
  /\ Running(s)
  /\ speer[s] = "open"
  /\ speer' = [speer EXCEPT ![s] = "gone"]
  /\ UNCHANGED <<sse_subscribers, spc, squeue, swaited, sout, sdue,
                 wvars, bvars, rvars, dvars>>

\* Time passes for every subscriber waiting on an empty queue, by d units.
\* Time does not pass a deadline, nor while a waiting task is ready to run.
Ticking(s) ==
  /\ spc[s] = "wait"
  /\ WithinHorizon(s)

Remaining == {SSE_TIMEOUT - swaited[s] : s \in {x \in Subs : Ticking(x)}}

Tick(d) ==
  /\ \E s \in Subs : Ticking(s)
  /\ \A s \in Subs : Ticking(s) => WaitFor(squeue[s], swaited[s]) = "pending"
  /\ \A m \in Remaining : d <= m
  /\ swaited' = [s \in Subs |-> IF Ticking(s) THEN swaited[s] + d ELSE swaited[s]]
  /\ UNCHANGED <<sse_subscribers, spc, squeue, sout, speer, sdue,
                 wvars, bvars, rvars, dvars>>

\* One unit of time passes.
TickUnit == Tick(1)

\* ------------------------------------------------------------ sockets
\* list.remove: drops the first occurrence.
RemoveFirst(list, x) ==
  LET i == CHOOSE k \in DOMAIN list :
             list[k] = x /\ \A j \in 1..(k - 1) : list[j] # x
  IN SubSeq(list, 1, i - 1) \o SubSeq(list, i + 1, Len(list))

\* Mutant of Disconnect: list.remove without the membership test.
DisconnectRaises(list, ws) ==
  IF ws \in Range(list)
  THEN [raised |-> FALSE, active |-> RemoveFirst(list, ws)]
  ELSE [raised |-> TRUE, active |-> list]

\* Mutant of Disconnect: the whole list is dropped.
DisconnectClear(list, ws) == [raised |-> FALSE, active |-> <<>>]

\* ConnectionManager.disconnect: remove the socket if it is in the list.
\* raised: list.remove on an absent element raises ValueError.
Disconnect(list, ws) ==
  IF ws \in Range(list)
  THEN [raised |-> FALSE, active |-> RemoveFirst(list, ws)]
  ELSE [raised |-> FALSE, active |-> list]

\* Mutant of ConnectAppend: the socket is appended twice.
ConnectAppendTwice(list, ws) == Append(Append(list, ws), ws)

\* self.active.append(websocket), after accept() has returned
ConnectAppend(list, ws) == Append(list, ws)

\* list(self.active): the copy a broadcast iterates
Snapshot(list) == list

\* Mutant of Target: "for ws in self.active", the loop reads the live list.
TargetLive(r) ==
  IF bidx[r] <= Len(active) THEN active[bidx[r]] ELSE bsnap[r][bidx[r]]

\* The socket a suspended broadcast is sending to.
Target(r) == bsnap[r][bidx[r]]

\* ws.send_text on the peer as it is when the send completes.
SendText(peer) == IF peer = "open" THEN "ok" ELSE "raised"

\* A socket request arrives: websocket_endpoint awaits accept().
WsConnect(w) ==
  /\ wpc[w] = "new"
  /\ NextFresh(wpc, w)
  /\ wpc' = [wpc EXCEPT ![w] = "accepting"]
  /\ UNCHANGED <<active, wpeer, wrecv, failed, svars, bvars, rvars, dvars>>

\* Mutant of WsAccept: the socket is appended before accept() is awaited.
WsAcceptAppendFirst(w) ==
  /\ wpc[w] = "accepting"
  /\ wpc' = [wpc EXCEPT ![w] = IF wpeer[w] = "gone" THEN "refused" ELSE "receiving"]
  /\ active' = Append(active, w)
  /\ UNCHANGED <<wpeer, wrecv, failed, svars, bvars, rvars, dvars>>

\* accept() returns and the socket is appended; or accept() raises because
\* the peer has gone, and the exception leaves websocket_endpoint.
WsAccept(w) ==
  /\ wpc[w] = "accepting"
  /\ IF wpeer[w] = "gone"
     THEN /\ wpc' = [wpc EXCEPT ![w] = "refused"]
          /\ UNCHANGED active
     ELSE /\ wpc' = [wpc EXCEPT ![w] = "receiving"]
          /\ active' = ConnectAppend(active, w)
  /\ UNCHANGED <<wpeer, wrecv, failed, svars, bvars, rvars, dvars>>

\* receive_text raises (WebSocketDisconnect or another exception) once the
\* peer has gone: both handlers call disconnect and the endpoint returns.
WsReceiveFails(w) ==
  /\ wpc[w] = "receiving"
  /\ wpeer[w] = "gone"
  /\ active' = Disconnect(active, w).active
  /\ wpc' = [wpc EXCEPT ![w] =
               IF Disconnect(active, w).raised THEN "raised" ELSE "closed"]
  /\ UNCHANGED <<wpeer, wrecv, failed, svars, bvars, rvars, dvars>>

\* The peer stops reading: a send_text to it does not complete.
WsPeerStall(w) ==
  /\ wpc[w] \in {"accepting", "receiving"}
  /\ wpeer[w] = "open"
  /\ wpeer' = [wpeer EXCEPT ![w] = "stalled"]
  /\ UNCHANGED <<active, wpc, wrecv, failed, svars, bvars, rvars, dvars>>

\* The peer closes or the connection breaks.
WsPeerGone(w) ==
  /\ wpc[w] \in {"accepting", "receiving"}
  /\ wpeer[w] \in {"open", "stalled"}
  /\ wpeer' = [wpeer EXCEPT ![w] = "gone"]
  /\ UNCHANGED <<active, wpc, wrecv, failed, svars, bvars, rvars, dvars>>

\* ----------------------------------------------------------- dispatcher
\* Mutant of Publish: the broadcast is awaited before the push-stream pass.
PublishSocketsFirst(r, event, response) ==
  /\ revent' = [revent EXCEPT ![r] = event]
  /\ bsnap' = [bsnap EXCEPT ![r] = Snapshot(active)]
  /\ rresp' = [rresp EXCEPT ![r] = response]
  /\ IF Snapshot(active) = <<>>
     THEN /\ squeue' = PublishSse(squeue, sse_subscribers, event)
          /\ sdue' = [s \in Subs |->
                        IF Running(s) THEN Append(sdue[s], event) ELSE sdue[s]]
          /\ rpc' = [rpc EXCEPT ![r] = "done"]
          /\ UNCHANGED bidx
     ELSE /\ rpc' = [rpc EXCEPT ![r] = "sending"]
          /\ bidx' = [bidx EXCEPT ![r] = 1]
          /\ UNCHANGED <<squeue, sdue>>
  /\ UNCHANGED <<sse_subscribers, spc, swaited, sout, speer, wvars, blog>>

\* publish_event up to its first suspension: the push-stream pass, then
\* broadcast takes its snapshot and awaits the first send_text. With no
\* socket in the snapshot, broadcast, publish_event and the write return.
Publish(r, event, response) ==
  /\ squeue' = PublishSse(squeue, sse_subscribers, event)
  /\ sdue' = [s \in Subs |-> IF Running(s) THEN Append(sdue[s], event) ELSE sdue[s]]
  /\ revent' = [revent EXCEPT ![r] = event]
  /\ bsnap' = [bsnap EXCEPT ![r] = Snapshot(active)]
  /\ rresp' = [rresp EXCEPT ![r] = response]
  /\ IF Snapshot(active) = <<>>
     THEN /\ rpc' = [rpc EXCEPT ![r] = "done"]
          /\ UNCHANGED bidx
     ELSE /\ rpc' = [rpc EXCEPT ![r] = "sending"]
          /\ bidx' = [bidx EXCEPT ![r] = 1]
  /\ UNCHANGED <<sse_subscribers, spc, swaited, sout, speer, wvars, blog>>

\* Mutant of Rejection: the sender is not looked up.
RejectionNoSender(chat_id, sender) ==
  IF ~ValidObjectId(chat_id) THEN [status |-> 400, detail |-> "Invalid chat_id"]
  ELSE IF ~FindChat(chat_id) THEN [status |-> 404, detail |-> "Chat not found"]
  ELSE NoResp

\* The checks send_message and upload_media make before they store anything.
Rejection(chat_id, sender) ==
  IF ~ValidObjectId(chat_id) THEN [status |-> 400, detail |-> "Invalid chat_id"]
  ELSE IF ~FindChat(chat_id) THEN [status |-> 404, detail |-> "Chat not found"]
  ELSE IF ~GetUserByUsername(sender) THEN [status |-> 404, detail |-> "Sender not found"]
  ELSE NoResp

Reject(r, response) ==
  /\ rpc' = [rpc EXCEPT ![r] = "rejected"]
  /\ rresp' = [rresp EXCEPT ![r] = response]
  /\ UNCHANGED <<revent, svars, wvars, bvars, dvars>>

\* payload.kind or "text"
KindOrText(kind) == IF kind = "none" THEN "text" ELSE kind

\* POST /api/messages
SendMessage(r, chat_id, sender, content, kind) ==
  /\ rpc[r] = "new"
  /\ NextFresh(rpc, r)
  /\ UNCHANGED rreq
  /\ IF Rejection(chat_id, sender) # NoResp
     THEN Reject(r, Rejection(chat_id, sender))
     ELSE LET msg == [chat_id |-> chat_id, sender_id |-> sender,
                      content |-> content, kind |-> KindOrText(kind),
                      media_url |-> 0]
              msg_id == CreateDocumentId(db_message)
              preview == SendPreview(content, KindOrText(kind))
          IN /\ db_message' = Append(db_message, msg)
             /\ db_preview' = preview
             /\ UNCHANGED db_media
             /\ Publish(r, JsonDumps(chat_id, msg_id, preview),
                        [status |-> 200, message_id |-> msg_id])

\* POST /api/messages/upload, up to await file.read()
UploadMedia(r, chat_id, sender, kind) ==
  /\ rpc[r] = "new"
  /\ NextFresh(rpc, r)
  /\ IF Rejection(chat_id, sender) # NoResp
     THEN /\ Reject(r, Rejection(chat_id, sender))
          /\ UNCHANGED rreq
     ELSE /\ rpc' = [rpc EXCEPT ![r] = "reading"]
          /\ rreq' = [rreq EXCEPT ![r] = [op |-> "upload", chat_id |-> chat_id,
                        sender |-> sender, kind |-> kind]]
          /\ UNCHANGED <<revent, rresp, svars, wvars, bvars, dvars>>

\* upload_media after file.read(): the media and the message are stored,
\* the preview updated and the event published.
UploadStore(r) ==
  /\ rpc[r] = "reading"
  /\ LET media_id == db_media + 1
         msg == [chat_id |-> rreq[r].chat_id, sender_id |-> rreq[r].sender,
                 content |-> "", kind |-> rreq[r].kind, media_url |-> media_id]
         msg_id == CreateDocumentId(db_message)
         preview == UploadPreview(rreq[r].kind)
     IN /\ db_media' = media_id
        /\ db_message' = Append(db_message, msg)
        /\ db_preview' = preview
        /\ Publish(r, JsonDumps(rreq[r].chat_id, msg_id, preview),
                   [status |-> 200, message_id |-> msg_id, media_url |-> media_id])
  /\ UNCHANGED rreq

\* Mutants of AfterSend: "except Exception: pass"; no try/except at all.
AfterSendIgnore(list, ws, outcome) == [raised |-> FALSE, active |-> list]

AfterSendNoCatch(list, ws, outcome) == [raised |-> outcome # "ok", active |-> list]

\* What broadcast does when the send_text it awaits returns or raises:
\* on an exception the socket is disconnected; an exception of disconnect
\* itself would leave broadcast.
AfterSend(list, ws, outcome) ==
  IF outcome = "ok" THEN [raised |-> FALSE, active |-> list]
  ELSE Disconnect(list, ws)

\* Mutant of ForNext: the loop stays on a socket whose send raised.
ForNextRetry(idx, outcome) == IF outcome = "ok" THEN idx + 1 ELSE idx

\* "for ws in list(self.active)": the loop moves on to the next socket of
\* the snapshot whatever the send did.
ForNext(idx, outcome) == idx + 1

\* The send_text a broadcast awaits completes; the loop goes on to the next
\* socket of the snapshot, or broadcast, publish_event and the write return.
BroadcastSend(r) ==
  /\ rpc[r] = "sending"
  /\ LET ws == Target(r)
         outcome == SendText(wpeer[ws])
         after == AfterSend(active, ws, outcome)
     IN /\ wpeer[ws] # "stalled"
        /\ blog' = [blog EXCEPT ![r] = Append(@, <<ws, outcome>>)]
        /\ wrecv' = [wrecv EXCEPT ![ws] =
                       IF outcome = "ok" THEN Append(@, revent[r]) ELSE @]
        /\ failed' = IF outcome = "ok" THEN failed ELSE failed \cup {ws}
        /\ active' = after.active
        /\ IF after.raised
           THEN /\ rpc' = [rpc EXCEPT ![r] = "raised"]
                /\ rresp' = [rresp EXCEPT ![r] = [status |-> 500]]
                /\ UNCHANGED bidx
           ELSE IF ForNext(bidx[r], outcome) <= Len(bsnap[r])
           THEN /\ bidx' = [bidx EXCEPT ![r] = ForNext(@, outcome)]
                /\ UNCHANGED <<rpc, rresp>>
           ELSE /\ rpc' = [rpc EXCEPT ![r] = "done"]
                /\ UNCHANGED <<bidx, rresp>>
  /\ UNCHANGED <<wpc, wpeer, rreq, revent, bsnap, svars, dvars>>

\* ------------------------------------------------------- specification
Init ==
  /\ sse_subscribers = {}
  /\ spc = [s \in Subs |-> "new"]
  /\ squeue = [s \in Subs |-> <<>>]
  /\ swaited = [s \in Subs |-> 0]
  /\ sout = [s \in Subs |-> <<>>]
  /\ speer = [s \in Subs |-> "open"]
  /\ sdue = [s \in Subs |-> <<>>]
  /\ active = <<>>
  /\ wpc = [w \in Socks |-> "new"]
  /\ wpeer = [w \in Socks |-> "open"]
  /\ wrecv = [w \in Socks |-> <<>>]
  /\ failed = {}
  /\ rpc = [r \in Reqs |-> "new"]
  /\ rreq = [r \in Reqs |-> NoReq]
  /\ revent = [r \in Reqs |-> <<>>]
  /\ bsnap = [r \in Reqs |-> <<>>]
  /\ bidx = [r \in Reqs |-> 0]
  /\ blog = [r \in Reqs |-> <<>>]
  /\ rresp = [r \in Reqs |-> NoResp]
  /\ db_message = <<>>
  /\ db_preview = "none"
  /\ db_media = 0

PushSteps(S) ==
  \/ \E s \in S : SseSubscribe(s)
  \/ \E s \in S : SseCheck(s)
  \/ \E s \in S : SseData(s)
  \/ \E s \in S : SseResume(s)
  \/ \E s \in S : SseCancel(s)
  \/ \E s \in S : SsePeerGone(s)

TimedSteps ==
  \/ \E s \in Subs : SseKeepAlive(s)
  \/ TickUnit

SocketSteps ==
  \/ \E w \in Socks : WsConnect(w)
  \/ \E w \in Socks : WsAccept(w)
  \/ \E w \in Socks : WsReceiveFails(w)
  \/ \E w \in Socks : WsPeerStall(w)
  \/ \E w \in Socks : WsPeerGone(w)
  \/ \E r \in Reqs : BroadcastSend(r)

\* Accepted writes with one content each.
Sends == \E r \in Reqs : SendMessage(r, "c1", "u1", "hi", "none")

Writes ==
  \/ Sends
  \/ \E r \in Reqs : UploadMedia(r, "c1", "u1", "image")
  \/ \E r \in Reqs : UploadStore(r)

\* Every task that can run is run by the event loop; nothing is assumed of
\* the peers.
Fairness ==
  /\ \A w \in Socks : WF_vars(WsAccept(w))
  /\ \A w \in Socks : WF_vars(WsReceiveFails(w))
  /\ \A r \in Reqs : WF_vars(UploadStore(r))
  /\ \A r \in Reqs : WF_vars(BroadcastSend(r))

\* Both transports together, within one timeout window of the push stream.
Next ==
  \/ PushSteps(1..NJointSubs)
  \/ SocketSteps
  \/ Writes

Spec == Init /\ [][Next]_vars

\* The push stream alone, with time; the events are those of send_message.
NextPush ==
  \/ PushSteps(Subs)
  \/ TimedSteps
  \/ Sends

SpecPush == Init /\ [][NextPush]_vars

\* The socket broadcaster alone.
NextSock ==
  \/ SocketSteps
  \/ Writes

SpecSock == Init /\ [][NextSock]_vars

FairSpecSock == SpecSock /\ Fairness

\* One push stream with time and its teardown, under the event loop's
\* scheduling: a generator that can run does run, a frame handed to the
\* response is written or the stream torn down, and time passes.
NextStream == PushSteps(1..NJointSubs) \/ TimedSteps \/ Sends

StreamFairness ==
  /\ \A s \in 1..NJointSubs :
       /\ WF_vars(SseCheck(s))
       /\ WF_vars(SseData(s))
       /\ WF_vars(SseKeepAlive(s))
       /\ WF_vars(SseResume(s))
  /\ WF_vars(TickUnit)

FairSpecStream == Init /\ [][NextStream]_vars /\ StreamFairness

\* Every push subscriber beside the sockets with live peers, untimed:
\* writes whose fan-outs overlap while the subscribers consume.
NextOrder ==
  \/ PushSteps(Subs)
  \/ \E w \in Socks : WsConnect(w)
  \/ \E w \in Socks : WsAccept(w)
  \/ \E r \in Reqs : BroadcastSend(r)
  \/ Sends

SpecOrder == Init /\ [][NextOrder]_vars

\* The writes with every input, beside one push subscriber and the sockets
\* with live peers.
AnyWrites ==
  \/ \E r \in Reqs, c \in ChatIds, u \in Usernames, t \in Contents, k \in Kinds :
       SendMessage(r, c, u, t, k)
  \/ \E r \in Reqs, c \in ChatIds, u \in Usernames, k \in Kinds :
       UploadMedia(r, c, u, k)
  \/ \E r \in Reqs : UploadStore(r)

NextWrites ==
  \/ \E s \in 1..NJointSubs : SseSubscribe(s)
  \/ \E s \in 1..NJointSubs : SseCheck(s)
  \/ \E s \in 1..NJointSubs : SseData(s)
  \/ \E s \in 1..NJointSubs : SseResume(s)
  \/ \E w \in Socks : WsConnect(w)
  \/ \E w \in Socks : WsAccept(w)
  \/ \E r \in Reqs : BroadcastSend(r)
  \/ AnyWrites

SpecWrites == Init /\ [][NextWrites]_vars

\* ---------------------------------------------------------------- claims
Published(r) == rpc[r] \in {"new", "reading"} /\ rpc'[r] \in {"sending", "done"}

SendFailed(r) ==
  /\ Len(blog'[r]) = Len(blog[r]) + 1
  /\ blog'[r][Len(blog'[r])][2] = "raised"

Sockets(log) == [i \in DOMAIN log |-> log[i][1]]

IsPrefix(a, b) == Len(a) <= Len(b) /\ a = SubSeq(b, 1, Len(a))

\* C1: sse_subscribers is exactly the set of the queues whose generator has
\* registered and has not yet run its finally clause, in every state reached
\* by subscriptions, terminations and publish_event calls.
C1_RegistryExact == sse_subscribers = {s \in Subs : Running(s)}

\* One generator has terminated, another is running, after a publish.
C1_Witness ==
  /\ spc[1] = "closed"
  /\ spc[2] = "wait"
  /\ rpc[1] = "done"
  /\ sse_subscribers = {2}

\* C2: the push-stream pass of publish_event appends the event to the queue
\* of every registered subscriber, one that has stopped consuming included,
\* in the one step that also takes the broadcast's snapshot: it waits for no
\* consumer and drops nothing.
C2_PublishReachesAll ==
  [][\A r \in Reqs : Published(r) =>
       \A s \in Subs :
         squeue'[s] = IF s \in sse_subscribers
                      THEN Append(squeue[s], revent'[r]) ELSE squeue[s]]_vars

\* Subscriber 1 has stopped at its first frame with the second event left in
\* its queue, while subscriber 2 has received and emitted the second event.
C2_Witness ==
  /\ spc[1] = "yield"
  /\ Len(squeue[1]) = 1
  /\ Len(sout[1]) = 1
  /\ rpc[2] = "done"
  /\ sout[2] = <<DataFrame(revent[2])>>

\* C3: a socket on which a send has raised is out of ws_manager.active from
\* then on and in the snapshot of no broadcast that starts later, and the
\* failing step changes neither what the other sockets were sent nor the
\* attempts already made.
C3_FailedSocketGone ==
  [][/\ \A w \in failed' : w \notin Range(active')
     /\ \A r \in Reqs : Published(r) => Range(bsnap'[r]) \cap failed = {}
     /\ \A r \in Reqs : SendFailed(r) =>
          /\ \A w \in Socks : wrecv'[w] = wrecv[w]
          /\ \A q \in Reqs : IsPrefix(blog[q], blog'[q])]_vars

\* A send of the first broadcast has raised after another of its sends was
\* delivered, and a second broadcast started afterwards on what was left.
C3_Witness ==
  /\ rpc[1] = "done"
  /\ blog[1] = <<<<1, "ok">>, <<2, "raised">>>>
  /\ rpc[2] = "sending"
  /\ bsnap[2] = <<1>>

\* C4: within one broadcast every socket of the snapshot is attempted once,
\* in order, whatever the earlier sends did, and no exception reaches the
\* caller of broadcast.
C4_EachSocketOnce ==
  \A r \in Reqs :
    /\ rpc[r] # "raised"
    /\ rpc[r] = "sending" => Sockets(blog[r]) = SubSeq(bsnap[r], 1, bidx[r] - 1)
    /\ rpc[r] = "done" => Sockets(blog[r]) = bsnap[r]

\* A broadcast has returned after its first send raised and its second was
\* delivered.
C4_Witness ==
  \E r \in Reqs :
    /\ rpc[r] = "done"
    /\ blog[r] = <<<<1, "raised">>, <<2, "ok">>>>

\* The event carried by a data frame.
Payload(frame) == SubSeq(frame, 2, Len(frame) - 1)

IsData(frame) == frame # KeepAliveFrame

DataPayloads(out) ==
  LET data == SelectSeq(out, IsData)
  IN [i \in DOMAIN data |-> Payload(data[i])]

\* C5: no request ends with an exception of publish_event; a write that has
\* published answers with the id of the message it stored, the one its event
\* names; socket failures leave the event with every push subscriber it was
\* due to, and the broadcast attempts every socket of its snapshot.
C5_PublishNeverFailsWrite ==
  \A r \in Reqs :
    /\ rpc[r] # "raised"
    /\ rpc[r] \in {"sending", "done"} =>
         /\ rresp[r].status = 200
         /\ rresp[r].message_id \in DOMAIN db_message
         /\ revent[r][6] = rresp[r].message_id
         /\ \A s \in Subs :
              /\ revent[r] \in Range(sdue[s]) /\ Running(s) =>
                   revent[r] \in Range(squeue[s]) \cup Range(DataPayloads(sout[s]))
              /\ Running(s) => IsPrefix(DataPayloads(sout[s]), sdue[s])
    /\ rpc[r] = "done" =>
         /\ Sockets(blog[r]) = bsnap[r]
         /\ \A i \in DOMAIN blog[r] :
              blog[r][i][2] = "ok" => revent[r] \in Range(wrecv[blog[r][i][1]])

\* The second write has returned its id although a send of its broadcast
\* raised, and the push subscriber has emitted its event.
C5_Witness ==
  /\ rpc[2] = "done"
  /\ rresp[2].message_id = 2
  /\ \E i \in DOMAIN blog[2] : blog[2][i][2] = "raised"
  /\ DataFrame(revent[2]) \in Range(sout[1])

\* C6: every broadcast that has started a send goes on to return, whatever
\* the peers do.
C6_FanOutTerminates == \A r \in Reqs : (rpc[r] = "sending") ~> (rpc[r] = "done")

\* C7: in the push-stream loop every step from the wait to the yield adds
\* exactly one frame and no other step adds any: the data frame of the head
\* of the queue when an event is there, otherwise a keep-alive frame, and
\* then the whole timeout has passed on an empty queue; every wait starts
\* from zero.
C7_OneFramePerIteration ==
  [][\A s \in Subs :
       /\ IF spc[s] = "wait" /\ spc'[s] = "yield"
          THEN IF squeue[s] # <<>>
               THEN /\ sout'[s] = Append(sout[s], DataFrame(Head(squeue[s])))
                    /\ squeue'[s] = Tail(squeue[s])
               ELSE /\ sout'[s] = Append(sout[s], KeepAliveFrame)
                    /\ swaited[s] = SSE_TIMEOUT
          ELSE sout'[s] = sout[s]
       /\ spc'[s] = "wait" /\ spc[s] # "wait" => swaited'[s] = 0]_vars

\* A subscriber has emitted a keep-alive frame after each of two idle
\* timeouts and then, in a later wait, a data frame.
C7_Witness ==
  \E s \in Subs :
    /\ Len(sout[s]) = 3
    /\ sout[s][1] = KeepAliveFrame
    /\ sout[s][2] = KeepAliveFrame
    /\ IsData(sout[s][3])
    /\ spc[s] = "wait"

\* C8: the data frames a connected subscriber has emitted, followed by what
\* is left in its queue, are exactly the events published while it was
\* registered, each once, in order and unchanged; and a wait that finds an
\* event pending emits its data frame, never a keep-alive frame.
C8_EachEventOnce ==
  [][\A s \in Subs :
       /\ spc'[s] \in {"check", "wait", "yield"} =>
            DataPayloads(sout'[s]) \o squeue'[s] = sdue'[s]
       /\ spc'[s] = "closed" => IsPrefix(DataPayloads(sout'[s]), sdue'[s])
       /\ \A i, j \in DOMAIN sdue'[s] : sdue'[s][i] = sdue'[s][j] => i = j
       /\ spc[s] = "wait" /\ squeue[s] # <<>> /\ sout'[s] # sout[s] =>
            sout'[s] = Append(sout[s], DataFrame(Head(squeue[s])))]_vars

\* Both subscribers were registered when the first write published; each
\* has emitted that one data frame and nothing else.
C8_Witness ==
  /\ rpc[1] = "done"
  /\ sout[1] = <<DataFrame(revent[1])>>
  /\ sout[2] = <<DataFrame(revent[1])>>
  /\ sdue[1] = <<revent[1]>>
  /\ sdue[2] = <<revent[1]>>

\* C9 as stated: every member of either registry has a live connection.
C9_OnlyLiveMembers ==
  /\ \A s \in sse_subscribers : speer[s] = "open"
  /\ \A w \in Range(active) : wpeer[w] # "gone"

\* C9 as amended: an entry outlives its connection only until its owner
\* observes the loss. A queue is a member only while its generator runs, and
\* is out once the generator has left at the disconnect check or been
\* closed; a socket is a member only while its endpoint receives, and is out
\* once a send to it has raised or its endpoint has returned.
C9_RemovedOnceObserved ==
  /\ \A s \in Subs : s \in sse_subscribers <=> Running(s)
  /\ \A s \in Subs : spc[s] = "closed" => s \notin sse_subscribers
  /\ \A w \in Range(active) : wpc[w] = "receiving"
  /\ \A w \in Socks : w \in failed => w \notin Range(active)

\* The push generator has left at its disconnect check, and a failed send
\* has removed a socket whose endpoint has not yet seen the disconnect,
\* while the other socket is still a member.
C9_Witness ==
  /\ spc[1] = "closed"
  /\ sse_subscribers = {}
  /\ failed = {1}
  /\ wpc[1] = "receiving"
  /\ active = <<2>>

\* C10: a disconnect of a socket that is not in the list (the endpoint's
\* after a failed send removed it, or the second of two broadcasts failing
\* on it) leaves the list as it is and raises nothing, and so does the
\* discard of a queue that is not in the set.
C10_AbsentRemovalNoOp ==
  [][/\ \A w \in Socks :
          wpc[w] = "receiving" /\ wpc'[w] # "receiving" /\ w \notin Range(active)
            => active' = active /\ wpc'[w] = "closed"
     /\ \A r \in Reqs :
          SendFailed(r) /\ Target(r) \notin Range(active)
            => active' = active /\ rpc'[r] # "raised"
     /\ \A s \in Subs \ sse_subscribers :
          SseDiscard(sse_subscribers, s) = sse_subscribers]_vars

\* Two broadcasts have both failed on socket 1, whose endpoint has then
\* disconnected it once more; socket 2 is still a member.
C10_Witness ==
  /\ <<1, "raised">> \in Range(blog[1])
  /\ <<1, "raised">> \in Range(blog[2])
  /\ wpc[1] = "closed"
  /\ active = <<2>>

\* How far a connection has come: Connecting, Active, Closed.
SockStage(pc) ==
  IF pc \in {"new", "accepting"} THEN 0 ELSE IF pc = "receiving" THEN 1 ELSE 2

SubStage(pc) ==
  IF pc = "new" THEN 0 ELSE IF pc \in {"check", "wait", "yield"} THEN 1 ELSE 2

\* C11: a connection only moves forward through Connecting, Active, Closed.
\* A socket becomes a member only in the step in which its accept() returns
\* on a peer that has not gone, a queue only in the step that creates it;
\* since no connection moves back, one that has been removed is never a
\* member again.
C11_ForwardOnly ==
  [][/\ \A w \in Socks :
          /\ SockStage(wpc[w]) <= SockStage(wpc'[w])
          /\ wpc[w] # "new" => wpc'[w] # "new"
          /\ w \in Range(active') /\ w \notin Range(active) =>
               /\ wpc[w] = "accepting"
               /\ wpc'[w] = "receiving"
               /\ wpeer[w] # "gone"
          /\ w \in Range(active') => SockStage(wpc'[w]) = 1
     /\ \A s \in Subs :
          /\ SubStage(spc[s]) <= SubStage(spc'[s])
          /\ s \in sse_subscribers' /\ s \notin sse_subscribers => spc[s] = "new"
          /\ s \in sse_subscribers' => SubStage(spc'[s]) = 1]_vars

\* One socket was refused at its handshake and never a member, the other has
\* been a member and was removed, and the push generator has closed.
C11_Witness ==
  /\ wpc[1] = "refused"
  /\ wpc[2] = "closed"
  /\ wrecv[2] # <<>>
  /\ active = <<>>
  /\ spc[1] = "closed"
  /\ sout[1] # <<>>

\* C12: a write publishes in the very step that stores its message and
\* updates the preview, once, with the stored message's id, for a chat and
\* a sender that exist, and goes on to its response through nothing but
\* the fan-out; no other step stores a message or publishes; a rejected
\* request stores nothing and publishes nothing.
C12_PublishAfterStore ==
  [][/\ \A r \in Reqs :
          /\ Published(r) =>
               LET msg_id == Len(db_message')
                   msg == db_message'[msg_id]
               IN /\ db_message' = Append(db_message, msg)
                  /\ ValidObjectId(msg.chat_id) /\ FindChat(msg.chat_id)
                  /\ GetUserByUsername(msg.sender_id)
                  /\ revent[r] = <<>>
                  /\ revent'[r] = JsonDumps(msg.chat_id, msg_id, db_preview')
                  /\ rresp'[r].status = 200 /\ rresp'[r].message_id = msg_id
                  /\ \A s \in sse_subscribers :
                       squeue'[s] = Append(squeue[s], revent'[r])
          /\ ~Published(r) => revent'[r] = revent[r]
          /\ rpc[r] = "sending" =>
               /\ rpc'[r] \in {"sending", "done"}
               /\ rresp'[r] = rresp[r]
          /\ rpc[r] \in {"done", "rejected"} => rpc'[r] = rpc[r]
          /\ rpc[r] = "new" /\ rpc'[r] = "rejected" =>
               /\ rresp'[r].status \in {400, 404}
               /\ UNCHANGED <<dvars, svars, wvars, bvars, revent>>
     /\ (\A r \in Reqs : ~Published(r)) =>
          /\ UNCHANGED dvars
          /\ \A s \in Subs : Len(squeue'[s]) <= Len(squeue[s])
          /\ \A w \in Socks : Len(wrecv'[w]) <= Len(wrecv[w]) + 1]_vars

C12_Witness ==
  /\ rpc = <<"rejected", "done">>
  /\ rresp[1] = [status |-> 404, detail |-> "Sender not found"]
  /\ Len(db_message) = 1 /\ db_media = 1
  /\ wrecv[1] = <<revent[2]>>
  /\ sout[1] = <<DataFrame(revent[2])>>

\* C13: a generator whose peer has gone starts no further wait, closes at
\* the disconnect check it reaches, is unregistered by whatever step closes
\* it, and does close in the end.
C13_GoneThenClosed ==
  /\ [][\A s \in Subs :
          /\ speer[s] = "gone" /\ spc'[s] = "wait" => spc[s] = "wait"
          /\ speer[s] = "gone" /\ spc[s] = "check" /\ spc'[s] # "check" =>
               spc'[s] = "closed"
          /\ spc'[s] = "closed" => s \notin sse_subscribers']_vars
  /\ \A s \in 1..NJointSubs :
       (speer[s] = "gone" /\ Running(s)) ~>
         (spc[s] = "closed" /\ s \notin sse_subscribers)

C13_Witness ==
  /\ spc[1] = "closed" /\ speer[1] = "gone" /\ 1 \notin sse_subscribers
  /\ Len(sout[1]) = 2 /\ sout[1][2] = KeepAliveFrame /\ IsData(sout[1][1])
  /\ squeue[1] # <<>>

\* C14: a broadcast iterates the list as it was when it started: its
\* snapshot is the active list of that moment and never changes, its k-th
\* attempt is on the k-th socket of the snapshot, it has attempted all of
\* them when it returns, a connect or disconnect meanwhile leaves it where
\* it is, and it never raises.
C14_SnapshotIterated ==
  [][\A r \in Reqs :
       /\ Published(r) => bsnap'[r] = active /\ blog'[r] = <<>>
       /\ rpc[r] \in {"sending", "done"} => bsnap'[r] = bsnap[r]
       /\ blog'[r] # blog[r] =>
            /\ rpc[r] = "sending"
            /\ \E o \in {"ok", "raised"} :
                 blog'[r] = Append(blog[r], <<bsnap[r][Len(blog[r]) + 1], o>>)
       /\ rpc[r] = "sending" /\ blog'[r] = blog[r] =>
            rpc'[r] = "sending" /\ bidx'[r] = bidx[r]
       /\ rpc'[r] = "done" => Len(blog'[r]) = Len(bsnap'[r])
       /\ rpc'[r] # "raised"]_vars

C14_Witness ==
  /\ rpc[1] = "sending" /\ bsnap[1] = <<1>> /\ blog[1] = <<>>
  /\ active = <<2>> /\ wpc[1] = "closed" /\ wpc[2] = "receiving"

\* C15: the step in which a write publishes puts the event on the queue of
\* every subscriber registered at that moment and on no other, changes no
\* registration, and has attempted no socket send yet; the socket sends
\* that follow put nothing on any queue.
C15_QueuesBeforeSockets ==
  [][\A r \in Reqs :
       /\ Published(r) =>
            /\ \A s \in Subs :
                 squeue'[s] = IF s \in sse_subscribers
                              THEN Append(squeue[s], revent'[r])
                              ELSE squeue[s]
            /\ sse_subscribers' = sse_subscribers
            /\ blog'[r] = <<>>
            /\ wrecv' = wrecv
       /\ blog'[r] # blog[r] =>
            /\ squeue' = squeue
            /\ sse_subscribers' = sse_subscribers]_vars

C15_Witness ==
  /\ rpc[1] = "sending" /\ blog[1] = <<>> /\ bsnap[1] = <<1, 2>>
  /\ sse_subscribers = {1, 2}
  /\ squeue[1] = <<revent[1]>> /\ squeue[2] = <<revent[1]>>
  /\ wrecv[1] = <<>> /\ wrecv[2] = <<>>

\* The events whose data frames a subscriber has emitted, in order.
Emitted(s) == DataPayloads(sout[s])

Before(seq, a, b) ==
  \E i, j \in DOMAIN seq : i < j /\ seq[i] = a /\ seq[j] = b

\* The place of an event in the order in which the writes published: the
\* id of its message, given in the step that publishes.
PublishedAt(event) == event[6]

\* C16: every subscriber emits, and holds in its queue, events in the order
\* in which they were published, so no two subscribers emit two events in
\* opposite orders.
C16_PublishOrder ==
  /\ \A s \in Subs :
       LET seq == Emitted(s) \o squeue[s]
       IN \A i, j \in DOMAIN seq :
            i < j => PublishedAt(seq[i]) < PublishedAt(seq[j])
  /\ \A s, t \in Subs : \A a, b \in Range(Emitted(s)) :
       Before(Emitted(s), a, b) => ~Before(Emitted(t), b, a)

C16_Witness ==
  /\ rpc = <<"sending", "sending">>
  /\ PublishedAt(revent[1]) < PublishedAt(revent[2])
  /\ sout[1] = <<DataFrame(revent[1]), DataFrame(revent[2])>>
  /\ sout[2] = sout[1]

NoDuplicates(list) ==
  \A i, j \in DOMAIN list : list[i] = list[j] => i = j

\* C17: no socket occurs twice in the active list nor in the list a
\* broadcast iterates; a socket whose endpoint has disconnected it occurs
\* nowhere in the active list; no broadcast sends to a socket twice.
C17_ActiveIsSet ==
  /\ NoDuplicates(active)
  /\ \A w \in Socks : wpc[w] \in {"closed", "raised"} => w \notin Range(active)
  /\ \A r \in Reqs : NoDuplicates(bsnap[r]) /\ NoDuplicates(Sockets(blog[r]))

C17_Witness ==
  /\ wpc = <<"closed", "receiving">> /\ active = <<2>>
  /\ rpc = <<"done", "done">>
  /\ Sockets(blog[1]) = <<1, 2>> /\ Sockets(blog[2]) = <<2>>
  /\ failed = {}

\* The list without the socket, the others in their places.
Without(list, ws) ==
  LET Other(x) == x # ws
  IN SelectSeq(list, Other)

\* C18: the step in which a send raises takes the failing socket out of the
\* active list and leaves every other socket where it was; it changes no
\* push registration, no queue, no generator, no endpoint and no stored
\* document.
C18_FailureIsLocal ==
  [][\A r \in Reqs : SendFailed(r) =>
       /\ active' = Without(active, Target(r))
       /\ \A w \in Socks \ {Target(r)} :
            (w \in Range(active')) = (w \in Range(active))
       /\ sse_subscribers' = sse_subscribers
       /\ squeue' = squeue
       /\ UNCHANGED <<spc, sout, speer, wpc, wpeer, bsnap, dvars>>]_vars

C18_Witness ==
  /\ failed = {1} /\ blog[1] = <<<<1, "raised">>>> /\ rpc[1] = "sending"
  /\ active = <<2>> /\ wpc[1] = "receiving"
  /\ sse_subscribers = {1} /\ squeue[1] = <<revent[1]>>

====
